---- MODULE Spec2Model ----
(***************************************************************************)
(* State-machine model of the buffered_io ring-buffer engines.             *)
(*                                                                         *)
(* AsyncIOWriteBuffer and AsyncIOReadBuffer (src/src/AsyncSmartBuffer.hpp) *)
(* are modelled as records that keep the C++ member names.  Every member   *)
(* function is an operator from an engine "world" (the engine plus the     *)
(* things its callbacks can touch) to the world after the call, so that a  *)
(* completion handler that calls back into the engine is part of the same  *)
(* step, exactly as it is part of the same C++ call stack.                 *)
(*                                                                         *)
(* Payload bytes are pairs <<request, index>>, source bytes are their      *)
(* stream positions, so loss, duplication and reordering are all visible.  *)
(***************************************************************************)
EXTENDS Integers, Sequences, FiniteSets, TLC

\* ------------------------------------------------------------------ bounds
\* Largest ring capacity explored for AsyncIOWriteBuffer (capacities 1..AWMaxCap).
AWMaxCap == 3
\* Largest payload length of one write call.
AWMaxLen == 2
\* Largest number of write calls in one behaviour (re-entrant ones included).
AWMaxWrites == 3

\* Largest ring capacity explored for AsyncIOReadBuffer (capacities 1..ARMaxCap).
ARMaxCap == 3
\* Largest len of one read call.
ARMaxLen == 4
\* Largest number of read calls in one behaviour.
ARMaxReads == 3
\* Largest number of bytes the source supplies before it is exhausted.
ARMaxSrc == 6

\* SyncIOReadBuffer: capacities 1..SRMaxCap, read lengths 0..SRMaxLen, source
\* streams of at most SRMaxSrc bytes.
SRMaxCap == 4
SRMaxLen == 4
SRMaxSrc == 6

\* SyncIOLazyWriteBuffer: capacities 1..LWMaxCap, at most LWMaxWrites write
\* calls of 0..LWMaxLen bytes, a sink that takes at most LWMaxSink bytes.
LWMaxCap == 3
LWMaxLen == 3
LWMaxWrites == 2
LWMaxSink == 6

\* ----------------------------------------------------------------- helpers
Min(a, b) == IF a < b THEN a ELSE b

\* The suffix of a caller's memory that a pointer "p + k" designates.
Drop(s, k) == SubSeq(s, k + 1, Len(s))

IsPrefix(s, t) == /\ Len(s) <= Len(t)
                  /\ \A i \in 1..Len(s) : s[i] = t[i]

\* A ring cell that malloc returned and nothing has written yet.
Uninit == <<0, 0>>

\* The caller's memory handed to the id-th write call: len distinct bytes.
Payload(id, len) == [i \in 1..len |-> <<id, i>>]

\* ------------------------------------------------------ AsyncIOWriteBuffer
VARIABLES
  awb,       \* the AsyncIOWriteBuffer object (record of its members)
  awPush,    \* ioPush calls issued and not yet completed: <<[ptr, len]>>
  awSink,    \* [out: bytes the sink accepted, exhausted: it has returned 0]
  awFired,   \* completion handler invocations, in order: [id, val, acc, exh]
  awSubs,    \* write calls in submission order: [len, reLen]
  awLast     \* the last engine entry point that ran: [op, n]

awVars == <<awb, awPush, awSink, awFired, awSubs, awLast>>

AW_New(size) ==
  [m_outBuff           |-> [i \in 0..(size - 1) |-> Uninit],
   m_tail              |-> 0,
   m_head              |-> 0,
   m_size              |-> size,
   m_lastOperation     |-> "NONE",
   m_writeLoopOn       |-> FALSE,
   m_pendingWriteQueue |-> <<>>]

\* occupiedBytes() without the branch for a wrapped ring.
AW_occupiedBytes_noWrap(b) ==
  IF b.m_tail = b.m_head
    THEN (IF b.m_lastOperation = "PUT" THEN b.m_size ELSE 0)
    ELSE b.m_head - b.m_tail

AW_occupiedBytes(b) ==
  IF b.m_tail = b.m_head
    THEN (IF b.m_lastOperation = "PUT" THEN b.m_size ELSE 0)
    ELSE IF b.m_tail < b.m_head
      THEN b.m_head - b.m_tail
      ELSE b.m_size - (b.m_tail - b.m_head)

AW_freeBytes(b) == b.m_size - AW_occupiedBytes(b)

\* memcpy(m_outBuff + at, src, n)
AW_memcpy(buf, at, src, n) ==
  [i \in DOMAIN buf |-> IF i >= at /\ i < at + n THEN src[i - at + 1] ELSE buf[i]]

\* AW_put with the wrapped segment copied from the start of outData, not from
\* outData + l1.
AW_put_noOffset(b, outData, len) ==
  IF len = 0 THEN b
  ELSE IF b.m_head < b.m_tail \/ len <= b.m_size - b.m_head
    THEN [b EXCEPT !.m_outBuff = AW_memcpy(@, b.m_head, outData, len),
                   !.m_head = (b.m_head + len) % b.m_size,
                   !.m_lastOperation = "PUT"]
    ELSE LET l1 == b.m_size - b.m_head
             l2 == len - l1
         IN [b EXCEPT !.m_outBuff = AW_memcpy(AW_memcpy(@, b.m_head, outData, l1),
                                              0, outData, l2),
                      !.m_head = l2,
                      !.m_lastOperation = "PUT"]

AW_put(b, outData, len) ==
  IF len = 0 THEN b
  ELSE IF b.m_head < b.m_tail \/ len <= b.m_size - b.m_head
    THEN [b EXCEPT !.m_outBuff = AW_memcpy(@, b.m_head, outData, len),
                   !.m_head = (b.m_head + len) % b.m_size,
                   !.m_lastOperation = "PUT"]
    ELSE LET l1 == b.m_size - b.m_head
             l2 == len - l1
         IN [b EXCEPT !.m_outBuff = AW_memcpy(AW_memcpy(@, b.m_head, outData, l1),
                                              0, Drop(outData, l1), l2),
                      !.m_head = l2,
                      !.m_lastOperation = "PUT"]

\* m_ioInterface(m_outBuff + ptr, len, [this](writeLen){onWriteToInterface(writeLen);})
AW_ioInterface(w, ptr, len) ==
  [w EXCEPT !.push = Append(@, [ptr |-> ptr, len |-> len])]

\* Number of distinct payload bytes of request id the sink has accepted.
AW_accepted(out, id) ==
  Cardinality({out[k] : k \in {j \in DOMAIN out : out[j][1] = id}})

\* m_pendingWriteQueue.push_back(r)
AW_push_back(q, r) == Append(q, r)

RECURSIVE AW_write(_, _, _, _), AW_resHandler(_, _, _)

\* The caller's completion handler of request id, invoked with val.  A handler
\* built with reLen > 0 calls write() on the same engine from inside.
AW_resHandler(w, id, val) ==
  LET w1 == [w EXCEPT !.fired = Append(@, [id  |-> id,
                                           val |-> val,
                                           acc |-> AW_accepted(w.sink.out, id),
                                           exh |-> w.sink.exhausted])]
      reLen == w.subs[id].reLen
  IN IF reLen > 0
       THEN AW_write(w1, Payload(Len(w1.subs) + 1, reLen), reLen, 0)
       ELSE w1

\* write that starts an ioPush although the write loop is already on.
AW_write_noLoopCheck(w, out, len, reLen) ==
  LET id == Len(w.subs) + 1
      w0 == [w EXCEPT !.subs = Append(@, [len |-> len, reLen |-> reLen])]
  IN IF len = 0
       THEN AW_resHandler(w0, id, 0)
       ELSE
         LET toPut == Min(len, AW_freeBytes(w0.b))
             b1 == AW_put(w0.b, out, toPut)
             b2 == [b1 EXCEPT !.m_pendingWriteQueue =
                      AW_push_back(@, [id |-> id, buff |-> out, len |-> len,
                                       alreadyPut |-> toPut, alreadySent |-> 0])]
             lengthTillEnd == b2.m_size - b2.m_tail
             toWrite == Min(AW_occupiedBytes(b2), lengthTillEnd)
         IN AW_ioInterface([w0 EXCEPT !.b = [b2 EXCEPT !.m_writeLoopOn = TRUE]],
                           b2.m_tail, toWrite)

\* write without the early return for len == 0.
AW_write_noZeroCheck(w, out, len, reLen) ==
  LET id == Len(w.subs) + 1
      w0 == [w EXCEPT !.subs = Append(@, [len |-> len, reLen |-> reLen])]
      toPut == Min(len, AW_freeBytes(w0.b))
      b1 == AW_put(w0.b, out, toPut)
      b2 == [b1 EXCEPT !.m_pendingWriteQueue =
               AW_push_back(@, [id |-> id, buff |-> out, len |-> len,
                                alreadyPut |-> toPut, alreadySent |-> 0])]
  IN IF b2.m_writeLoopOn
       THEN [w0 EXCEPT !.b = b2]
       ELSE LET lengthTillEnd == b2.m_size - b2.m_tail
                toWrite == Min(AW_occupiedBytes(b2), lengthTillEnd)
            IN AW_ioInterface([w0 EXCEPT !.b = [b2 EXCEPT !.m_writeLoopOn = TRUE]],
                              b2.m_tail, toWrite)

AW_write(w, out, len, reLen) ==
  LET id == Len(w.subs) + 1
      w0 == [w EXCEPT !.subs = Append(@, [len |-> len, reLen |-> reLen])]
  IN IF len = 0
       THEN AW_resHandler(w0, id, 0)
       ELSE
         LET toPut == Min(len, AW_freeBytes(w0.b))
             b1 == AW_put(w0.b, out, toPut)
             b2 == [b1 EXCEPT !.m_pendingWriteQueue =
                      AW_push_back(@, [id |-> id, buff |-> out, len |-> len,
                                       alreadyPut |-> toPut, alreadySent |-> 0])]
         IN IF b2.m_writeLoopOn
              THEN [w0 EXCEPT !.b = b2]
              ELSE LET lengthTillEnd == b2.m_size - b2.m_tail
                       toWrite == Min(AW_occupiedBytes(b2), lengthTillEnd)
                   IN AW_ioInterface([w0 EXCEPT !.b = [b2 EXCEPT !.m_writeLoopOn = TRUE]],
                                     b2.m_tail, toWrite)

\* AW_notifyAll walking the queue from the back to the front.
RECURSIVE AW_notifyDown(_, _)
AW_notifyDown(w, i) ==
  IF i < 1 THEN w
  ELSE LET r == w.b.m_pendingWriteQueue[i]
       IN AW_notifyDown(AW_resHandler(w, r.id, r.alreadySent), i - 1)

AW_notifyAll_reverse(w, i) == AW_notifyDown(w, Len(w.b.m_pendingWriteQueue))

\* AW_notifyAll reporting alreadyPut where the code reports alreadySent.
RECURSIVE AW_notifyAll_put(_, _)
AW_notifyAll_put(w, i) ==
  IF i > Len(w.b.m_pendingWriteQueue) THEN w
  ELSE LET r == w.b.m_pendingWriteQueue[i]
       IN AW_notifyAll_put(AW_resHandler(w, r.id, r.alreadyPut), i + 1)

\* onWriteToInterface, lines 410-416: notify every pending request, front to
\* back, with its alreadySent.  A handler may push_back while the loop runs.
RECURSIVE AW_notifyAll(_, _)
AW_notifyAll(w, i) ==
  IF i > Len(w.b.m_pendingWriteQueue) THEN w
  ELSE LET r == w.b.m_pendingWriteQueue[i]
       IN AW_notifyAll(AW_resHandler(w, r.id, r.alreadySent), i + 1)

\* AW_attribute with the whole confirmed count spent on the front request: the
\* credit left over when it completes is not carried to the next request.
AW_attribute_noCarry(w, remainingLen) ==
  IF remainingLen = 0 \/ w.b.m_pendingWriteQueue = <<>> THEN w
  ELSE LET r == Head(w.b.m_pendingWriteQueue)
           sent == Min(r.alreadySent + remainingLen, r.len)
           w1 == [w EXCEPT !.b.m_pendingWriteQueue[1].alreadySent = sent]
       IN IF sent = r.len
            THEN LET w3 == AW_resHandler(w1, r.id, r.len)
                 IN [w3 EXCEPT !.b.m_pendingWriteQueue = Tail(@)]
            ELSE w1

\* onWriteToInterface, lines 433-445: credit the confirmed bytes to the
\* requests at the front of the queue, completing those that reach len.
RECURSIVE AW_attribute(_, _)
AW_attribute(w, remainingLen) ==
  IF remainingLen = 0 \/ w.b.m_pendingWriteQueue = <<>> THEN w
  ELSE LET r == Head(w.b.m_pendingWriteQueue)
           toIncrease == Min(remainingLen, r.len - r.alreadySent)
           sent == r.alreadySent + toIncrease
           w1 == [w EXCEPT !.b.m_pendingWriteQueue[1].alreadySent = sent]
           w2 == IF sent = r.len
                   THEN LET w3 == AW_resHandler(w1, r.id, r.len)
                        IN [w3 EXCEPT !.b.m_pendingWriteQueue = Tail(@)]
                   ELSE w1
       IN AW_attribute(w2, remainingLen - toIncrease)

\* onWriteToInterface, lines 455-463: place still-unbuffered payload of the
\* pending requests, front to back, while the ring has free bytes.
RECURSIVE AW_putPending(_, _)
AW_putPending(b, i) ==
  IF AW_freeBytes(b) = 0 \/ i > Len(b.m_pendingWriteQueue) THEN b
  ELSE LET r == b.m_pendingWriteQueue[i]
           toPut == Min(r.len - r.alreadyPut, AW_freeBytes(b))
           b1 == AW_put(b, Drop(r.buff, r.alreadyPut), toPut)
       IN AW_putPending([b1 EXCEPT !.m_pendingWriteQueue[i].alreadyPut = @ + toPut],
                        i + 1)

\* onWriteToInterface, lines 425-430: advance m_tail over the confirmed bytes.
AW_advanceTail(b, bytesInThisIOCall) ==
  LET b1 == [b EXCEPT !.m_tail = (b.m_tail + bytesInThisIOCall) % b.m_size,
                      !.m_lastOperation = "WRITE"]
  IN IF AW_occupiedBytes(b1) = 0
       THEN [b1 EXCEPT !.m_head = 0, !.m_tail = 0]
       ELSE b1

\* AW_onSinkExhausted without m_pendingWriteQueue.clear().
AW_onSinkExhausted_noClear(w) ==
  LET w1 == AW_notifyAll(w, 1)
  IN [w1 EXCEPT !.b.m_writeLoopOn = FALSE]

\* onWriteToInterface, lines 408-421: the sink is exhausted.
AW_onSinkExhausted(w) ==
  LET w1 == AW_notifyAll(w, 1)
  IN [w1 EXCEPT !.b.m_pendingWriteQueue = <<>>,
                !.b.m_writeLoopOn = FALSE]

\* onWriteToInterface that does not issue the next ioPush when requests are
\* still pending.
AW_onWriteToInterface_noNextPush(w, bytesInThisIOCall) ==
  IF bytesInThisIOCall = 0
    THEN AW_onSinkExhausted(w)
    ELSE
      LET w1 == [w EXCEPT !.b = AW_advanceTail(@, bytesInThisIOCall)]
          w2 == AW_attribute(w1, bytesInThisIOCall)
      IN IF w2.b.m_pendingWriteQueue = <<>>
           THEN [w2 EXCEPT !.b.m_writeLoopOn = FALSE]
           ELSE [w2 EXCEPT !.b = AW_putPending(w2.b, 1)]

\* onWriteToInterface, lines 403-474.
AW_onWriteToInterface(w, bytesInThisIOCall) ==
  IF bytesInThisIOCall = 0
    THEN AW_onSinkExhausted(w)
    ELSE
      LET w1 == [w EXCEPT !.b = AW_advanceTail(@, bytesInThisIOCall)]
          w2 == AW_attribute(w1, bytesInThisIOCall)
      IN IF w2.b.m_pendingWriteQueue = <<>>
           THEN [w2 EXCEPT !.b.m_writeLoopOn = FALSE]
           ELSE LET b3 == AW_putPending(w2.b, 1)
                    lengthTillEnd == b3.m_size - b3.m_tail
                    toWrite == Min(AW_occupiedBytes(b3), lengthTillEnd)
                IN AW_ioInterface([w2 EXCEPT !.b = b3], b3.m_tail, toWrite)

\* The sink behind m_ioInterface: it takes the first n bytes of the segment it
\* was handed and then calls the result handler with n.  Returning 0 means the
\* sink "can no longer" take data (comment at lines 405-407): a sink that has
\* returned 0 is exhausted and accepts nothing afterwards.
AW_sinkAccept(w, n) ==
  LET p == Head(w.push)
  IN [w EXCEPT !.push = Tail(@),
               !.sink.out = @ \o [k \in 1..n |-> w.b.m_outBuff[(p.ptr + k - 1) % w.b.m_size]],
               !.sink.exhausted = @ \/ n = 0]

AW_world == [b |-> awb, push |-> awPush, sink |-> awSink,
             fired |-> awFired, subs |-> awSubs]

AW_set(w, op, n) ==
  /\ awb' = w.b
  /\ awPush' = w.push
  /\ awSink' = w.sink
  /\ awFired' = w.fired
  /\ awSubs' = w.subs
  /\ awLast' = [op |-> op, n |-> n]

\* Write calls still to come from handlers that have not fired yet.
AW_plannedReentries ==
  Cardinality({i \in DOMAIN awSubs :
                 /\ awSubs[i].reLen > 0
                 /\ \A k \in DOMAIN awFired : awFired[k].id # i})

\* The world of a freshly constructed AsyncIOWriteBuffer of the given size.
AW_start(size) ==
  [b     |-> AW_New(size),
   push  |-> <<>>,
   sink  |-> [out |-> <<>>, exhausted |-> FALSE],
   fired |-> <<>>,
   subs  |-> <<>>]

AW_is(w, last) ==
  /\ awb = w.b
  /\ awPush = w.push
  /\ awSink = w.sink
  /\ awFired = w.fired
  /\ awSubs = w.subs
  /\ awLast = last

\* The caller invokes write(out, len, resHandler) from outside any handler.
\* reLen is the length of the write its handler will issue (0: none).
AWWrite ==
  \E len \in 0..AWMaxLen, reLen \in 0..AWMaxLen :
    /\ Len(awSubs) + AW_plannedReentries + 1 + (IF reLen > 0 THEN 1 ELSE 0) <= AWMaxWrites
    /\ len = 0 => reLen = 0
    /\ AW_set(AW_write(AW_world, Payload(Len(awSubs) + 1, len), len, reLen), "write", len)

\* The sink completes the outstanding ioPush with n bytes: onWriteToInterface(n).
AWPushed ==
  /\ awPush # <<>>
  /\ \E n \in 0..Head(awPush).len :
       /\ awSink.exhausted => n = 0
       /\ AW_set(AW_onWriteToInterface(AW_sinkAccept(AW_world, n), n), "pushed", n)


\* ------------------------------------------- AsyncIOWriteBuffer: properties
\* The payloads of the first n write calls, concatenated in submission order.
RECURSIVE AW_expectedUpTo(_)
AW_expectedUpTo(n) ==
  IF n = 0 THEN <<>>
  ELSE AW_expectedUpTo(n - 1) \o Payload(n, awSubs[n].len)

AW_expected == AW_expectedUpTo(Len(awSubs))

AW_hasFired(id) == \E k \in DOMAIN awFired : awFired[k].id = id

AW_allFired == \A id \in DOMAIN awSubs : AW_hasFired(id)

\* Some handler that calls write() from inside has run.
AW_reentered == \E k \in DOMAIN awFired : awSubs[awFired[k].id].reLen > 0

\* C1: with write calls made only from outside handlers and a sink that accepts
\* at least one byte per push, the bytes the sink accepted are at every moment
\* a prefix of the payloads concatenated in submission order, and are all of
\* them once every handler has fired.
C1_ByteOrder ==
  (~AW_reentered /\ ~awSink.exhausted) =>
     /\ IsPrefix(awSink.out, AW_expected)
     /\ AW_allFired => awSink.out = AW_expected

C1_Witness ==
  /\ ~AW_reentered /\ ~awSink.exhausted
  /\ Len(awSubs) >= 2
  /\ \A i \in DOMAIN awSubs : awSubs[i].len > awb.m_size
  /\ AW_allFired
  /\ awSink.out = AW_expected

\* C2: the handler of a write with len >= 1 is invoked only after the handlers
\* of all writes with len >= 1 submitted before it, whatever the sink accepts.
C2_CompletionOrder ==
  \A k \in DOMAIN awFired :
    awSubs[awFired[k].id].len >= 1 =>
      \A i \in 1..(awFired[k].id - 1) :
        awSubs[i].len >= 1 => \E j \in 1..(k - 1) : awFired[j].id = i

C2_Witness ==
  /\ Len(awFired) >= 3
  /\ \A k \in DOMAIN awFired : awSubs[awFired[k].id].len >= 1
  /\ awSink.exhausted
  /\ \E k \in DOMAIN awFired : awFired[k].val = awSubs[awFired[k].id].len
  /\ \E k \in DOMAIN awFired : awFired[k].val < awSubs[awFired[k].id].len

C4_ExactlyOnce ==
  /\ \A j, k \in DOMAIN awFired : awFired[j].id = awFired[k].id => j = k
  /\ ~awb.m_writeLoopOn => AW_allFired

C4_Witness ==
  /\ ~awb.m_writeLoopOn
  /\ Len(awSubs) = AWMaxWrites
  /\ Len(awFired) = AWMaxWrites
  /\ awSink.exhausted
  /\ AW_reentered

\* C5: the step in which an ioPush completes with 0 bytes invokes the handler
\* of every pending request, in queue order, with that request's alreadySent,
\* leaves the queue empty and issues no ioPush.
C5_Exhaustion ==
  [][ (awLast'.op = "pushed" /\ awLast'.n = 0) =>
        LET q == awb.m_pendingWriteQueue
        IN /\ Len(awFired') >= Len(awFired) + Len(q)
           /\ SubSeq(awFired', 1, Len(awFired)) = awFired
           /\ \A i \in 1..Len(q) :
                /\ awFired'[Len(awFired) + i].id = q[i].id
                /\ awFired'[Len(awFired) + i].val = q[i].alreadySent
           /\ awb'.m_pendingWriteQueue = <<>>
           /\ awPush' = <<>>
           /\ ~awb'.m_writeLoopOn ]_awVars

C5_Witness ==
  /\ awLast = [op |-> "pushed", n |-> 0]
  /\ Len(awFired) >= 2
  /\ awFired[Len(awFired)].val = 0
  /\ awFired[Len(awFired) - 1].val >= 1
  /\ awFired[Len(awFired) - 1].val < awSubs[awFired[Len(awFired) - 1].id].len
  /\ awb.m_pendingWriteQueue = <<>>

\* C6: also when a handler calls write() from inside, the sink output is a
\* prefix of the payloads in submission order, no handler fires twice, and a
\* handler invoked with len finds all len bytes of its request accepted.
C6_ReentrantSafe ==
  AW_reentered =>
    /\ ~awSink.exhausted => IsPrefix(awSink.out, AW_expected)
    /\ \A j, k \in DOMAIN awFired : awFired[j].id = awFired[k].id => j = k
    /\ \A k \in DOMAIN awFired :
         awFired[k].val = awSubs[awFired[k].id].len =>
           awFired[k].acc = awSubs[awFired[k].id].len

\* ------------------------------------------------------- AsyncIOReadBuffer
VARIABLES
  arb,       \* the AsyncIOReadBuffer object (record of its members)
  arPull,    \* ioPull calls issued and not yet completed, with their closures
  arSrc,     \* [pos: bytes supplied so far, exhausted: it has returned 0, calls: ioPull calls,
             \*  greedy: every answer so far was min(requested, bytes it still held)]
  arCall,    \* the last read call: [k: bytes buffered when called, calls: arSrc.calls then]
  arDest,    \* the caller's memory of the read call in progress (0: never written)
  arDone,    \* onDone invocations, in order: [rid, len, val, dest, exh]
  arReads,   \* len of every read call, in call order
  arLast     \* the last engine entry point that ran: [op, n]

arVars == <<arb, arPull, arSrc, arCall, arDest, arDone, arReads, arLast>>

AR_New(size) ==
  [m_readBuff      |-> [i \in 0..(size - 1) |-> 0],
   m_tail          |-> 0,
   m_head          |-> 0,
   m_size          |-> size,
   m_lastOperation |-> "NONE"]

AR_occupiedBytes(b) ==
  IF b.m_tail = b.m_head
    THEN (IF b.m_lastOperation = "PASTE" THEN b.m_size ELSE 0)
    ELSE IF b.m_tail < b.m_head
      THEN b.m_head - b.m_tail
      ELSE b.m_size - (b.m_tail - b.m_head)

AR_freeBytes(b) == b.m_size - AR_occupiedBytes(b)

\* The ring content from m_tail on, oldest byte first.
AR_content(b) ==
  [k \in 1..AR_occupiedBytes(b) |-> b.m_readBuff[(b.m_tail + k - 1) % b.m_size]]

\* memcpy(dest + out, m_readBuff + from, n)
AR_memcpy(dest, out, buf, from, n) ==
  [i \in DOMAIN dest |->
     IF i > out /\ i <= out + n THEN buf[from + (i - out) - 1] ELSE dest[i]]

\* AR_copy without "m_lastOperation = LastOperation::COPY".
AR_copy_noMark(w, out, len) ==
  IF len = 0 THEN w
  ELSE
    LET b == w.b
        w1 == IF b.m_tail < b.m_head \/ len <= b.m_size - b.m_tail
                THEN [w EXCEPT !.dest = AR_memcpy(@, out, b.m_readBuff, b.m_tail, len),
                               !.b.m_tail = (b.m_tail + len) % b.m_size]
                ELSE LET l1 == b.m_size - b.m_tail
                         l2 == len - l1
                     IN [w EXCEPT !.dest = AR_memcpy(
                                             AR_memcpy(@, out, b.m_readBuff, b.m_tail, l1),
                                             out + l1, b.m_readBuff, 0, l2),
                                  !.b.m_tail = l2]
    IN IF AR_occupiedBytes(w1.b) = 0
         THEN [w1 EXCEPT !.b.m_head = 0, !.b.m_tail = 0]
         ELSE w1

\* copy that leaves the cursors where they are when the ring becomes empty.
AR_copy_noReset(w, out, len) ==
  IF len = 0 THEN w
  ELSE
    LET b == w.b
        w1 == IF b.m_tail < b.m_head \/ len <= b.m_size - b.m_tail
                THEN [w EXCEPT !.dest = AR_memcpy(@, out, b.m_readBuff, b.m_tail, len),
                               !.b.m_tail = (b.m_tail + len) % b.m_size]
                ELSE LET l1 == b.m_size - b.m_tail
                         l2 == len - l1
                     IN [w EXCEPT !.dest = AR_memcpy(
                                             AR_memcpy(@, out, b.m_readBuff, b.m_tail, l1),
                                             out + l1, b.m_readBuff, 0, l2),
                                  !.b.m_tail = l2]
    IN [w1 EXCEPT !.b.m_lastOperation = "COPY"]

\* copy(out, len): out is the offset into the caller's memory.
AR_copy(w, out, len) ==
  IF len = 0 THEN w
  ELSE
    LET b == w.b
        w1 == IF b.m_tail < b.m_head \/ len <= b.m_size - b.m_tail
                THEN [w EXCEPT !.dest = AR_memcpy(@, out, b.m_readBuff, b.m_tail, len),
                               !.b.m_tail = (b.m_tail + len) % b.m_size]
                ELSE LET l1 == b.m_size - b.m_tail
                         l2 == len - l1
                     IN [w EXCEPT !.dest = AR_memcpy(
                                             AR_memcpy(@, out, b.m_readBuff, b.m_tail, l1),
                                             out + l1, b.m_readBuff, 0, l2),
                                  !.b.m_tail = l2]
        w2 == [w1 EXCEPT !.b.m_lastOperation = "COPY"]
    IN IF AR_occupiedBytes(w2.b) = 0
         THEN [w2 EXCEPT !.b.m_head = 0, !.b.m_tail = 0]
         ELSE w2

\* The caller's resHandler of the read call in progress, invoked with val.
AR_resHandler(w, val) ==
  [w EXCEPT !.done = Append(@, [rid  |-> Len(w.reads),
                                len  |-> w.reads[Len(w.reads)],
                                val  |-> val,
                                dest |-> w.dest,
                                exh  |-> w.src.exhausted,
                                k    |-> w.call.k,
                                pulls |-> w.src.calls - w.call.calls,
                                greedy |-> w.src.greedy])]

\* ioInterface(m_readBuff + ptr, toRead, closure): the closure keeps out,
\* totalRequired and totalRead for onReadFromInterface.
AR_ioInterface(w, ptr, toRead, out, totalRequired, totalRead) ==
  [w EXCEPT !.pull = Append(@, [ptr |-> ptr, len |-> toRead, out |-> out,
                                totalRequired |-> totalRequired,
                                totalRead |-> totalRead]),
            !.src.calls = @ + 1]

\* AR_read whose closure starts totalRead at 0, forgetting the bytes it has
\* just copied out of the ring.
AR_read_forgetCopied(w, out, len) ==
  LET toCopy == Min(AR_occupiedBytes(w.b), len)
      w1 == AR_copy(w, out, toCopy)
  IN IF toCopy = len
       THEN AR_resHandler(w1, len)
       ELSE LET lengthTillEnd == w1.b.m_size - w1.b.m_head
                toRead == Min(AR_freeBytes(w1.b), lengthTillEnd)
            IN AR_ioInterface(w1, w1.b.m_head, toRead, out, len, 0)

\* AR_read that refills as soon as the ring is drained, also when the bytes
\* it held were enough for the request.
AR_read_eagerRefill(w, out, len) ==
  LET toCopy == Min(AR_occupiedBytes(w.b), len)
      w1 == AR_copy(w, out, toCopy)
  IN IF toCopy = len /\ AR_occupiedBytes(w1.b) > 0
       THEN AR_resHandler(w1, len)
       ELSE LET lengthTillEnd == w1.b.m_size - w1.b.m_head
                toRead == Min(AR_freeBytes(w1.b), lengthTillEnd)
            IN AR_ioInterface(w1, w1.b.m_head, toRead, out, len, toCopy)

\* AR_read that asks the source for a single byte instead of the free space.
AR_read_oneByte(w, out, len) ==
  LET toCopy == Min(AR_occupiedBytes(w.b), len)
      w1 == AR_copy(w, out, toCopy)
  IN IF toCopy = len
       THEN AR_resHandler(w1, len)
       ELSE AR_ioInterface(w1, w1.b.m_head, 1, out, len, toCopy)

AR_read(w, out, len) ==
  LET toCopy == Min(AR_occupiedBytes(w.b), len)
      w1 == AR_copy(w, out, toCopy)
  IN IF toCopy = len
       THEN AR_resHandler(w1, len)
       ELSE LET lengthTillEnd == w1.b.m_size - w1.b.m_head
                toRead == Min(AR_freeBytes(w1.b), lengthTillEnd)
            IN AR_ioInterface(w1, w1.b.m_head, toRead, out, len, toCopy)

\* AR_onReadFromInterface without the "else" after resHandler(totalRequired):
\* it notifies the caller and then goes on to refill.
AR_onReadFromInterface_noElse(w, out, totalRequired, totalRead, bytesInThisIOCall) ==
  IF bytesInThisIOCall = 0
    THEN AR_resHandler(w, totalRead)
    ELSE
      LET w1 == [w EXCEPT !.b.m_head = (w.b.m_head + bytesInThisIOCall) % w.b.m_size,
                          !.b.m_lastOperation = "PASTE"]
          toCopy == Min(totalRequired - totalRead, AR_occupiedBytes(w1.b))
          w2 == AR_copy(w1, out + totalRead, toCopy)
          totalLeftToRead == (totalRequired - totalRead) - toCopy
          w3 == IF totalLeftToRead = 0 THEN AR_resHandler(w2, totalRequired) ELSE w2
          lengthTillEnd == w3.b.m_size - w3.b.m_head
          toRead == Min(lengthTillEnd, AR_freeBytes(w3.b))
      IN AR_ioInterface(w3, w3.b.m_head, toRead, out,
                        totalRequired, totalRead + toCopy)

\* onReadFromInterface that asks the source again after it has returned 0.
AR_onReadFromInterface_retry(w, out, totalRequired, totalRead, bytesInThisIOCall) ==
  IF bytesInThisIOCall = 0
    THEN AR_ioInterface(w, w.b.m_head,
                        Min(w.b.m_size - w.b.m_head, AR_freeBytes(w.b)),
                        out, totalRequired, totalRead)
    ELSE
      LET w1 == [w EXCEPT !.b.m_head = (w.b.m_head + bytesInThisIOCall) % w.b.m_size,
                          !.b.m_lastOperation = "PASTE"]
          toCopy == Min(totalRequired - totalRead, AR_occupiedBytes(w1.b))
          w2 == AR_copy(w1, out + totalRead, toCopy)
          totalLeftToRead == (totalRequired - totalRead) - toCopy
      IN IF totalLeftToRead = 0
           THEN AR_resHandler(w2, totalRequired)
           ELSE LET lengthTillEnd == w2.b.m_size - w2.b.m_head
                    toRead == Min(lengthTillEnd, AR_freeBytes(w2.b))
                IN AR_ioInterface(w2, w2.b.m_head, toRead, out,
                                  totalRequired, totalRead + toCopy)

AR_onReadFromInterface(w, out, totalRequired, totalRead, bytesInThisIOCall) ==
  IF bytesInThisIOCall = 0
    THEN AR_resHandler(w, totalRead)
    ELSE
      LET w1 == [w EXCEPT !.b.m_head = (w.b.m_head + bytesInThisIOCall) % w.b.m_size,
                          !.b.m_lastOperation = "PASTE"]
          toCopy == Min(totalRequired - totalRead, AR_occupiedBytes(w1.b))
          w2 == AR_copy(w1, out + totalRead, toCopy)
          totalLeftToRead == (totalRequired - totalRead) - toCopy
      IN IF totalLeftToRead = 0
           THEN AR_resHandler(w2, totalRequired)
           ELSE LET lengthTillEnd == w2.b.m_size - w2.b.m_head
                    toRead == Min(lengthTillEnd, AR_freeBytes(w2.b))
                IN AR_ioInterface(w2, w2.b.m_head, toRead, out,
                                  totalRequired, totalRead + toCopy)

\* The source behind ioInterface: it stores its next n bytes at the address
\* it was handed and then calls the result handler with n.  Source bytes are
\* numbered 1, 2, 3, ...; a source that has returned 0 "can no longer provide
\* any data" (lines 54-55) and returns 0 from then on.  The stream has at
\* most ARMaxSrc bytes; a greedy source hands over min(requested, bytes left).
AR_sourceSupply(w, n) ==
  LET p == Head(w.pull)
  IN [w EXCEPT !.pull = Tail(@),
               !.b.m_readBuff = [i \in DOMAIN @ |->
                                   IF i >= p.ptr /\ i < p.ptr + n
                                     THEN w.src.pos + (i - p.ptr) + 1
                                     ELSE @[i]],
               !.src.pos = @ + n,
               !.src.exhausted = @ \/ n = 0,
               !.src.greedy = @ /\ n = Min(p.len, ARMaxSrc - w.src.pos)]

AR_world == [b |-> arb, pull |-> arPull, src |-> arSrc, call |-> arCall,
             dest |-> arDest, done |-> arDone, reads |-> arReads]

AR_set(w, op, n) ==
  /\ arb' = w.b
  /\ arPull' = w.pull
  /\ arSrc' = w.src
  /\ arCall' = w.call
  /\ arDest' = w.dest
  /\ arDone' = w.done
  /\ arReads' = w.reads
  /\ arLast' = [op |-> op, n |-> n]

\* The world of a freshly constructed AsyncIOReadBuffer of the given size.
AR_start(size) ==
  [b     |-> AR_New(size),
   pull  |-> <<>>,
   src   |-> [pos |-> 0, exhausted |-> FALSE, calls |-> 0, greedy |-> TRUE],
   call  |-> [k |-> 0, calls |-> 0],
   dest  |-> <<>>,
   done  |-> <<>>,
   reads |-> <<>>]

AR_is(w, last) ==
  /\ arb = w.b
  /\ arPull = w.pull
  /\ arSrc = w.src
  /\ arCall = w.call
  /\ arDest = w.dest
  /\ arDone = w.done
  /\ arReads = w.reads
  /\ arLast = last

\* The caller invokes read(out, len, ioInterface, resHandler) with fresh
\* memory, after the resHandler of its previous read has been invoked.
ARRead ==
  \E len \in 0..ARMaxLen :
    /\ Len(arReads) < ARMaxReads
    /\ Len(arDone) = Len(arReads)
    /\ AR_set(AR_read([AR_world EXCEPT !.reads = Append(@, len),
                                       !.call = [k     |-> AR_occupiedBytes(arb),
                                                 calls |-> arSrc.calls],
                                       !.dest = [i \in 1..len |-> 0]],
                      0, len),
              "read", len)

\* The source completes the outstanding ioPull with n bytes.
ARPulled ==
  /\ arPull # <<>>
  /\ \E n \in 0..Min(Head(arPull).len, ARMaxSrc - arSrc.pos) :
       /\ arSrc.exhausted => n = 0
       /\ LET p == Head(arPull)
          IN AR_set(AR_onReadFromInterface(AR_sourceSupply(AR_world, n), p.out,
                                           p.totalRequired, p.totalRead, n),
                    "pulled", n)


\* -------------------------------------------------------- SyncIOReadBuffer
VARIABLES
  srb,       \* the SyncIOReadBuffer object (record of its members)
  srSrc,     \* the source behind ioInterface: [len: bytes of its stream, cuts: the
             \*  positions where a chunk ends, pos: bytes supplied so far,
             \*  exhausted: it has returned 0,
             \*  zero: it returned 0 during the current engine call,
             \*  again: it was called after it returned 0 in the same engine call]
  srOut,     \* every byte handed to the callers so far, by the returned lengths
  srLast     \* the last engine call: [op, arg, ret, dest]

srVars == <<srb, srSrc, srOut, srLast>>

SR_New(size) ==
  [m_readBuff      |-> [i \in 0..(size - 1) |-> 0],
   m_tail          |-> 0,
   m_head          |-> 0,
   m_size          |-> size,
   m_lastOperation |-> "NONE"]

SR_occupiedBytes(b) ==
  IF b.m_tail = b.m_head
    THEN (IF b.m_lastOperation = "PASTE" THEN b.m_size ELSE 0)
    ELSE IF b.m_tail < b.m_head
      THEN b.m_head - b.m_tail
      ELSE b.m_size - (b.m_tail - b.m_head)

SR_freeBytes(b) == b.m_size - SR_occupiedBytes(b)

\* The ring content from m_tail on, oldest byte first.
SR_content(b) ==
  [k \in 1..SR_occupiedBytes(b) |-> b.m_readBuff[(b.m_tail + k - 1) % b.m_size]]

\* memcpy(dest + out, m_readBuff + from, n)
SR_memcpy(dest, out, buf, from, n) ==
  [i \in DOMAIN dest |->
     IF i > out /\ i <= out + n THEN buf[from + (i - out) - 1] ELSE dest[i]]

\* SR_copy that always takes the single-segment branch and reads the bytes
\* past the end of storage from its start without splitting the length.
SR_copy_noSplit(w, out, len) ==
  IF len = 0 THEN w
  ELSE
    LET b == w.b
        w1 == [w EXCEPT !.dest = [i \in DOMAIN @ |->
                                    IF i > out /\ i <= out + len
                                      THEN b.m_readBuff[Min(b.m_tail + (i - out) - 1,
                                                            b.m_size - 1)]
                                      ELSE @[i]],
                        !.b.m_tail = (b.m_tail + len) % b.m_size]
        w2 == [w1 EXCEPT !.b.m_lastOperation = "COPY"]
    IN IF SR_occupiedBytes(w2.b) = 0
         THEN [w2 EXCEPT !.b.m_head = 0, !.b.m_tail = 0]
         ELSE w2

\* copy(out, len): out is the offset into the caller's memory.
SR_copy(w, out, len) ==
  IF len = 0 THEN w
  ELSE
    LET b == w.b
        w1 == IF b.m_tail < b.m_head \/ len <= b.m_size - b.m_tail
                THEN [w EXCEPT !.dest = SR_memcpy(@, out, b.m_readBuff, b.m_tail, len),
                               !.b.m_tail = (b.m_tail + len) % b.m_size]
                ELSE LET l1 == b.m_size - b.m_tail
                         l2 == len - l1
                     IN [w EXCEPT !.dest = SR_memcpy(
                                             SR_memcpy(@, out, b.m_readBuff, b.m_tail, l1),
                                             out + l1, b.m_readBuff, 0, l2),
                                  !.b.m_tail = l2]
        w2 == [w1 EXCEPT !.b.m_lastOperation = "COPY"]
    IN IF SR_occupiedBytes(w2.b) = 0
         THEN [w2 EXCEPT !.b.m_head = 0, !.b.m_tail = 0]
         ELSE w2

\* What the source returns when asked for len bytes: the bytes up to the end
\* of its current chunk, at most len of them, and 0 once its stream has ended.
SR_answer(src, len) ==
  LET ends == {c \in src.cuts \cup {src.len} : c > src.pos}
  IN IF ends = {} THEN 0
     ELSE Min(len, (CHOOSE c \in ends : \A d \in ends : c <= d) - src.pos)

\* ioInterface(m_readBuff + ptr, len): the source stores its next bytes, which
\* are numbered 1, 2, 3, ..., at ptr and returns their number in w.r.
SR_ioInterface(w, ptr, len) ==
  LET n == SR_answer(w.src, len)
  IN [w EXCEPT !.b.m_readBuff = [i \in DOMAIN @ |->
                                   IF i >= ptr /\ i < ptr + n
                                     THEN w.src.pos + (i - ptr) + 1
                                     ELSE @[i]],
               !.src.pos = @ + n,
               !.src.exhausted = @ \/ n = 0,
               !.src.again = @ \/ w.src.zero,
               !.src.zero = @ \/ n = 0,
               !.r = n]

\* pasteFromInterface that does not record the refill in m_lastOperation.
SR_pasteFromInterface_noMark(w, len) ==
  IF len = 0 THEN [w EXCEPT !.r = 0]
  ELSE LET w1 == SR_ioInterface(w, w.b.m_head, len)
       IN IF w1.r # 0
            THEN [w1 EXCEPT !.b.m_head = (@ + w1.r) % w.b.m_size]
            ELSE w1

SR_pasteFromInterface(w, len) ==
  IF len = 0 THEN [w EXCEPT !.r = 0]
  ELSE LET w1 == SR_ioInterface(w, w.b.m_head, len)
       IN IF w1.r # 0
            THEN [w1 EXCEPT !.b.m_head = (@ + w1.r) % w.b.m_size,
                            !.b.m_lastOperation = "PASTE"]
            ELSE w1

\* paste(ioInterface): w.r is the number of bytes read from the source.
SR_paste(w) ==
  LET free == SR_freeBytes(w.b)
  IN IF free = 0 THEN [w EXCEPT !.r = 0]
     ELSE LET lengthTillEnd == w.b.m_size - w.b.m_head
              toRead == Min(lengthTillEnd, free)
              w1 == SR_pasteFromInterface(w, toRead)
              free1 == free - w1.r
          IN IF w1.r = toRead /\ free1 > 0
               THEN LET w2 == SR_pasteFromInterface(w1, free1)
                    IN [w2 EXCEPT !.r = w1.r + w2.r]
               ELSE w1

\* The while loop of read: "while (ret < len && paste(ioInterface))".
RECURSIVE SR_readLoop(_, _, _, _)
SR_readLoop(w, out, len, ret) ==
  IF ret < len
    THEN LET w1 == SR_paste(w)
         IN IF w1.r # 0
              THEN LET toCopy == Min(SR_occupiedBytes(w1.b), len - ret)
                   IN SR_readLoop(SR_copy(w1, out + ret, toCopy), out, len, ret + toCopy)
              ELSE [w1 EXCEPT !.r = ret]
    ELSE [w EXCEPT !.r = ret]

\* read(out, len, ioInterface): w.r is the returned count.
SR_read(w, out, len) ==
  IF SR_occupiedBytes(w.b) >= len
    THEN [SR_copy(w, out, len) EXCEPT !.r = len]
    ELSE LET w1 == SR_paste(w)
         IN IF w1.r # 0
              THEN LET occBytes == SR_occupiedBytes(w1.b)
                   IN IF occBytes >= len
                        THEN [SR_copy(w1, out, len) EXCEPT !.r = len]
                        ELSE SR_readLoop(SR_copy(w1, out, occBytes), out, len, occBytes)
              ELSE [w1 EXCEPT !.r = 0]

\* SR_findLengthTill that scans straight on from m_tail and stops at the last
\* cell of the storage instead of continuing at its start.
SR_findLengthTill_noWrap(b, ender) ==
  LET occBytes == SR_occupiedBytes(b)
      hits == {offset \in 0..(occBytes - 1) :
                 b.m_readBuff[Min(b.m_tail + offset, b.m_size - 1)] \in ender}
  IN IF hits = {} THEN 0
     ELSE (CHOOSE o \in hits : \A p \in hits : o <= p) + 1

\* findLengthTill(ender): the length up to and including the first buffered
\* byte that the ender accepts, 0 for the empty optional.  The ender is the
\* set of the bytes it accepts: one byte for the char overload.
SR_findLengthTill(b, ender) ==
  LET occBytes == SR_occupiedBytes(b)
      hits == {offset \in 0..(occBytes - 1) :
                 b.m_readBuff[(b.m_tail + offset) % b.m_size] \in ender}
  IN IF hits = {} THEN 0
     ELSE (CHOOSE o \in hits : \A p \in hits : o <= p) + 1

\* SR_readUntilLoop that forgets the bytes of its last round when the source
\* returns 0.
RECURSIVE SR_readUntilLoop_dropLast(_, _, _, _)
SR_readUntilLoop_dropLast(w, out, ret, ender) ==
  LET occBytes == SR_occupiedBytes(w.b)
      w1 == SR_copy(w, out + ret, occBytes)
      ret1 == ret + occBytes
      w2 == SR_paste(w1)
  IN IF w2.r # 0
       THEN LET len == SR_findLengthTill(w2.b, ender)
            IN IF len = 0
                 THEN SR_readUntilLoop_dropLast(w2, out, ret1, ender)
                 ELSE [SR_copy(w2, out + ret1, len) EXCEPT !.r = ret1 + len]
       ELSE [w2 EXCEPT !.r = ret]

\* The do-while loop of readUntil, entered when the buffered bytes hold no
\* match: copy out all of them, refill and look again.
RECURSIVE SR_readUntilLoop(_, _, _, _)
SR_readUntilLoop(w, out, ret, ender) ==
  LET occBytes == SR_occupiedBytes(w.b)
      w1 == SR_copy(w, out + ret, occBytes)
      ret1 == ret + occBytes
      w2 == SR_paste(w1)
  IN IF w2.r # 0
       THEN LET len == SR_findLengthTill(w2.b, ender)
            IN IF len = 0
                 THEN SR_readUntilLoop(w2, out, ret1, ender)
                 ELSE [SR_copy(w2, out + ret1, len) EXCEPT !.r = ret1 + len]
       ELSE [w2 EXCEPT !.r = ret1]

\* readUntil(out, ioInterface, ender), both overloads: w.r is the returned count.
SR_readUntil(w, out, ender) ==
  LET occ0 == SR_occupiedBytes(w.b)
      w1 == IF occ0 = 0 THEN SR_paste(w) ELSE w
      occBytes == IF occ0 = 0 THEN w1.r ELSE occ0
  IN IF occBytes # 0
       THEN LET len == SR_findLengthTill(w1.b, ender)
            IN IF len # 0
                 THEN [SR_copy(w1, out, len) EXCEPT !.r = len]
                 ELSE SR_readUntilLoop(w1, out, 0, ender)
       ELSE [w1 EXCEPT !.r = 0]

\* The world at the start of an engine call whose caller provides n cells.
SR_world(n) ==
  [b    |-> srb,
   src  |-> [srSrc EXCEPT !.zero = FALSE],
   dest |-> [i \in 1..n |-> 0],
   r    |-> 0]

SR_set(w, op, arg) ==
  /\ srb' = w.b
  /\ srSrc' = w.src
  /\ srOut' = srOut \o SubSeq(w.dest, 1, w.r)
  /\ srLast' = [op |-> op, arg |-> arg, ret |-> w.r, dest |-> w.dest]

\* A freshly constructed SyncIOReadBuffer of the given size in front of a
\* source whose stream has len bytes and is handed over in the given chunks.
SR_start(size, len, cuts) ==
  [b   |-> SR_New(size),
   src |-> [len |-> len, cuts |-> cuts, pos |-> 0, exhausted |-> FALSE,
            zero |-> FALSE, again |-> FALSE],
   out |-> <<>>]

SR_is(w, last) ==
  /\ srb = w.b
  /\ srSrc = w.src
  /\ srOut = w.out
  /\ srLast = last

\* The predicates handed to the predicate overload of readUntil.
SR_predicates ==
  {{i \in 1..SRMaxSrc : i % 2 = 0}, {i \in 1..SRMaxSrc : i % 3 = 0}, {}}

\* The caller invokes read(out, len, ioInterface) with fresh memory.
SRRead ==
  \E len \in 0..SRMaxLen :
    SR_set(SR_read(SR_world(len), 0, len), "read", len)

\* The caller invokes readUntil(out, ioInterface, ender) with a char ender and
\* memory that can take all the bytes the call can return.
SRReadUntil ==
  \E ender \in 1..SRMaxSrc :
    SR_set(SR_readUntil(SR_world(SRMaxSrc), 0, {ender}), "readUntil", {ender})

\* The same with a predicate ender.
SRReadUntilPred ==
  \E ender \in SR_predicates :
    SR_set(SR_readUntil(SR_world(SRMaxSrc), 0, ender), "readUntilPred", ender)


\* --------------------------------------------------- SyncIOLazyWriteBuffer
VARIABLES
  lwb,       \* the SyncIOLazyWriteBuffer object (record of its members)
  lwSink,    \* the sink behind m_ioInterface: [out: the bytes it has accepted,
             \*  full: it has accepted every byte it was offered so far]
  lwCall,    \* the m_ioInterface call the engine is waiting in, with the call
             \*  of flush around it and the locals of the write around that
  lwWrites,  \* every write call so far: [len, ret, done]
  lwFlush,   \* the last flush() call, by whoever called it: [before: the ring
             \*  content when it was called, sent: the bytes the sink accepted
             \*  in it, calls: its sink calls, full: the sink accepted all it
             \*  was offered in it, done, ret: its result, after: the ring
             \*  content when it returned]
  lwLast     \* the last engine call that returned: [op, n, ret]

lwVars == <<lwb, lwSink, lwCall, lwWrites, lwFlush, lwLast>>

LW_New(size) ==
  [m_outBuff       |-> [i \in 0..(size - 1) |-> Uninit],
   m_tail          |-> 0,
   m_head          |-> 0,
   m_size          |-> size,
   m_lastOperation |-> "NONE"]

LW_occupiedBytes(b) ==
  IF b.m_tail = b.m_head
    THEN (IF b.m_lastOperation = "PUT" THEN b.m_size ELSE 0)
    ELSE IF b.m_tail < b.m_head
      THEN b.m_head - b.m_tail
      ELSE b.m_size - (b.m_tail - b.m_head)

LW_freeBytes(b) == b.m_size - LW_occupiedBytes(b)

\* The ring content from m_tail on, oldest byte first.
LW_content(b) ==
  [k \in 1..LW_occupiedBytes(b) |-> b.m_outBuff[(b.m_tail + k - 1) % b.m_size]]

\* memcpy(m_outBuff + at, src, n)
LW_memcpy(buf, at, src, n) ==
  [i \in DOMAIN buf |-> IF i >= at /\ i < at + n THEN src[i - at + 1] ELSE buf[i]]

\* put(outData, len): outData is the payload from the current position on.
LW_put(b, outData, len) ==
  IF len = 0 THEN b
  ELSE
    LET b1 == IF b.m_head < b.m_tail \/ len <= b.m_size - b.m_head
                THEN [b EXCEPT !.m_outBuff = LW_memcpy(@, b.m_head, outData, len),
                               !.m_head = @ + len]
                ELSE LET l1 == b.m_size - b.m_head
                         l2 == len - l1
                     IN [b EXCEPT !.m_outBuff = LW_memcpy(
                                                  LW_memcpy(@, b.m_head, outData, l1),
                                                  0, Drop(outData, l1), l2),
                                  !.m_head = l2]
    IN [b1 EXCEPT !.m_lastOperation = "PUT"]

\* No m_ioInterface call in progress.
LW_idle ==
  [op |-> "none", at |-> "none", ptr |-> 0, len |-> 0,
   out |-> 0, remainingLen |-> 0, ret |-> 0]

\* The locals of a write call: out, remainingLen and ret.
LW_locals(out, remainingLen, ret) ==
  [out |-> out, remainingLen |-> remainingLen, ret |-> ret]

\* m_ioInterface(m_outBuff + ptr, len), called at the place "at" of flush
\* ("A": line 1049, "B1": line 1055, "B2": line 1057), which was called by
\* "by" ("write", "flush" or "dtor") with the locals c.
LW_ioInterface(w, by, c, at, ptr, len) ==
  [w EXCEPT !.call = [op |-> by, at |-> at, ptr |-> ptr, len |-> len,
                      out |-> c.out, remainingLen |-> c.remainingLen,
                      ret |-> c.ret]]

\* write is in its for loop and no iteration changes anything: it neither
\* returns nor calls the sink.
LW_spin(w, c) ==
  [w EXCEPT !.call = [op |-> "write", at |-> "spin", ptr |-> 0, len |-> 0,
                      out |-> c.out, remainingLen |-> c.remainingLen,
                      ret |-> c.ret]]

\* write returns ret.
LW_return(w, ret) ==
  [w EXCEPT !.call = LW_idle,
            !.writes[Len(w.writes)].ret = ret,
            !.writes[Len(w.writes)].done = TRUE,
            !.last = [op |-> "write", n |-> w.writes[Len(w.writes)].len, ret |-> ret]]

RECURSIVE LW_writeLoop(_, _, _), LW_flush(_, _, _), LW_flushed(_, _, _, _)

\* LW_writeLoop that also flushes when the payload just fills the free space.
LW_writeLoop_eager(w, c, flushfailed) ==
  LET freeBytesBeforePut == LW_freeBytes(w.b)
      id == Len(w.writes)
      outData == Drop(Payload(id, w.writes[id].len), c.out)
  IN IF freeBytesBeforePut <= c.remainingLen /\ ~flushfailed
       THEN LW_flush([w EXCEPT !.b = LW_put(@, outData, freeBytesBeforePut)],
                     "write",
                     LW_locals(c.out + freeBytesBeforePut,
                               c.remainingLen - freeBytesBeforePut,
                               c.ret + freeBytesBeforePut))
       ELSE LET bytestoPut == Min(c.remainingLen, freeBytesBeforePut)
            IN LW_return([w EXCEPT !.b = LW_put(@, outData, bytestoPut)],
                         c.ret + bytestoPut)

\* The for loop of write from its condition on, and the statements after it.
\* With m_size = 0 an iteration puts no byte and its flush() returns 0 without
\* a sink call, so that the loop repeats forever: the call stays at "spin".
LW_writeLoop(w, c, flushfailed) ==
  LET freeBytesBeforePut == LW_freeBytes(w.b)
      id == Len(w.writes)
      outData == Drop(Payload(id, w.writes[id].len), c.out)
  IN IF freeBytesBeforePut < c.remainingLen /\ ~flushfailed
       THEN IF freeBytesBeforePut = 0 /\ LW_occupiedBytes(w.b) = 0
              THEN LW_spin(w, c)
              ELSE LW_flush([w EXCEPT !.b = LW_put(@, outData, freeBytesBeforePut)],
                            "write",
                            LW_locals(c.out + freeBytesBeforePut,
                                      c.remainingLen - freeBytesBeforePut,
                                      c.ret + freeBytesBeforePut))
       ELSE LET bytestoPut == Min(c.remainingLen, freeBytesBeforePut)
            IN LW_return([w EXCEPT !.b = LW_put(@, outData, bytestoPut)],
                         c.ret + bytestoPut)

\* A flush() call begins.
LW_flushCalled(w) ==
  [w EXCEPT !.fl = [before |-> LW_content(w.b), sent |-> <<>>, calls |-> 0,
                    full |-> TRUE, done |-> FALSE, ret |-> 0, after |-> <<>>]]

\* LW_flush without the test for an empty ring.
LW_flush_noEmptyCheck(w, by, c) ==
  LET w0 == LW_flushCalled(w)
  IN IF w.b.m_tail < w.b.m_head
       THEN LW_ioInterface(w0, by, c, "A", w.b.m_tail, LW_occupiedBytes(w.b))
       ELSE LW_ioInterface(w0, by, c, "B1", w.b.m_tail, w.b.m_size - w.b.m_tail)

\* flush() up to its first m_ioInterface call.
LW_flush(w, by, c) ==
  LET w0 == LW_flushCalled(w)
  IN IF LW_occupiedBytes(w.b) = 0
       THEN LW_flushed(w0, by, c, 0)
       ELSE IF w.b.m_tail < w.b.m_head
         THEN LW_ioInterface(w0, by, c, "A", w.b.m_tail, LW_occupiedBytes(w.b))
         ELSE LW_ioInterface(w0, by, c, "B1", w.b.m_tail, w.b.m_size - w.b.m_tail)

\* flush() from "if (ret)" on, and what its caller does with the result:
\* write assigns it to the bool flushfailed and goes on with its loop.
LW_flushed(w, by, c, ret) ==
  LET b == w.b
      w0 == IF ret # 0
              THEN [w EXCEPT !.b = [(IF b.m_tail = b.m_head
                                       THEN [b EXCEPT !.m_tail = 0, !.m_head = 0]
                                       ELSE b)
                                    EXCEPT !.m_lastOperation = "FLUSH"]]
              ELSE w
      w1 == [w0 EXCEPT !.fl.done = TRUE, !.fl.ret = ret,
                       !.fl.after = LW_content(w0.b)]
  IN IF by = "write"
       THEN LW_writeLoop(w1, c, ret # 0)
       ELSE [w1 EXCEPT !.call = LW_idle,
                       !.last = [op |-> by, n |-> 0, ret |-> ret]]

\* LW_sinkReturn that ends the flush after the segment up to the end of
\* storage, without offering the segment at its start.
LW_sinkReturn_noSecond(w, n) ==
  LET p == w.call
      c == LW_locals(p.out, p.remainingLen, p.ret)
      taken == [i \in 1..n |-> w.b.m_outBuff[p.ptr + i - 1]]
      w0 == [w EXCEPT !.sink.out = @ \o taken,
                      !.sink.full = @ /\ n = p.len,
                      !.fl.sent = @ \o taken,
                      !.fl.calls = @ + 1,
                      !.fl.full = @ /\ n = p.len]
  IN CASE p.at = "A" ->
            LW_flushed([w0 EXCEPT !.b.m_tail = @ + n], p.op, c, n)
       [] p.at = "B1" ->
            LW_flushed([w0 EXCEPT !.b.m_tail = (@ + n) % w.b.m_size], p.op, c, n)
       [] p.at = "B2" ->
            LW_flushed([w0 EXCEPT !.b.m_tail = n], p.op, c, 1 + n)

\* The sink takes the first n of the bytes it was offered and m_ioInterface
\* returns n: flush goes on from the place of the call.
LW_sinkReturn(w, n) ==
  LET p == w.call
      c == LW_locals(p.out, p.remainingLen, p.ret)
      taken == [i \in 1..n |-> w.b.m_outBuff[p.ptr + i - 1]]
      w0 == [w EXCEPT !.sink.out = @ \o taken,
                      !.sink.full = @ /\ n = p.len,
                      !.fl.sent = @ \o taken,
                      !.fl.calls = @ + 1,
                      !.fl.full = @ /\ n = p.len]
  IN CASE p.at = "A" ->
            LW_flushed([w0 EXCEPT !.b.m_tail = @ + n], p.op, c, n)
       [] p.at = "B1" ->
            IF n = p.len
              THEN LW_ioInterface(w0, p.op, c, "B2", 0, w0.b.m_head)
              ELSE LW_flushed(w0, p.op, c, 0)
       [] p.at = "B2" ->
            LW_flushed([w0 EXCEPT !.b.m_tail = n], p.op, c, 1 + n)

\* write(out, len): the payload of the n-th write call is Payload(n, len).
LW_write(w, len) ==
  LW_writeLoop([w EXCEPT !.writes = Append(@, [len |-> len, ret |-> 0, done |-> FALSE])],
               LW_locals(0, len, 0), FALSE)

LW_world == [b |-> lwb, sink |-> lwSink, call |-> lwCall, writes |-> lwWrites,
             fl |-> lwFlush, last |-> lwLast]

LW_set(w) ==
  /\ lwb' = w.b
  /\ lwSink' = w.sink
  /\ lwCall' = w.call
  /\ lwWrites' = w.writes
  /\ lwFlush' = w.fl
  /\ lwLast' = w.last

\* A freshly constructed SyncIOLazyWriteBuffer of the given size.
LW_start(size) ==
  [b      |-> LW_New(size),
   sink   |-> [out |-> <<>>, full |-> TRUE],
   call   |-> LW_idle,
   writes |-> <<>>,
   fl     |-> [before |-> <<>>, sent |-> <<>>, calls |-> 0, full |-> TRUE,
               done |-> FALSE, ret |-> 0, after |-> <<>>],
   last   |-> [op |-> "init", n |-> 0, ret |-> 0]]

LW_is(w) ==
  /\ lwb = w.b
  /\ lwSink = w.sink
  /\ lwCall = w.call
  /\ lwWrites = w.writes
  /\ lwFlush = w.fl
  /\ lwLast = w.last

\* The caller invokes write(out, len).
LWWrite ==
  \E len \in 0..LWMaxLen :
    /\ lwCall.op = "none"
    /\ lwLast.op # "dtor"
    /\ Len(lwWrites) < LWMaxWrites
    /\ LW_set(LW_write(LW_world, len))

\* The caller invokes flush().
LWFlush ==
  /\ lwCall.op = "none"
  /\ lwLast.op # "dtor"
  /\ LW_set(LW_flush(LW_world, "flush", LW_locals(0, 0, 0)))

\* A destructor that frees the storage without flushing.
LWDestroy_noFlush ==
  /\ lwCall.op = "none"
  /\ lwLast.op # "dtor"
  /\ LW_set([LW_world EXCEPT !.last = [op |-> "dtor", n |-> 0, ret |-> 0]])

\* The buffer is destroyed: ~SyncIOLazyWriteBuffer() calls flush().
LWDestroy ==
  /\ lwCall.op = "none"
  /\ lwLast.op # "dtor"
  /\ LW_set(LW_flush(LW_world, "dtor", LW_locals(0, 0, 0)))

\* The m_ioInterface call in progress returns n.
LWSinkReturn ==
  /\ lwCall.op # "none"
  /\ lwCall.at # "spin"
  /\ \E n \in 0..lwCall.len :
       /\ Len(lwSink.out) + n <= LWMaxSink
       /\ LW_set(LW_sinkReturn(LW_world, n))


\* ---------------------------------------------------------- specifications
\* Each engine instance is independent of the others: a specification runs one
\* engine and leaves the other, freshly constructed with capacity 1, untouched.
vars == <<awVars, arVars, srVars, lwVars>>

Started == [op |-> "init", n |-> 0]

InitAsyncWrite ==
  /\ \E size \in 1..AWMaxCap : AW_is(AW_start(size), Started)
  /\ AR_is(AR_start(1), Started)
  /\ SR_is(SR_start(1, 0, {}), Started)
  /\ LW_is(LW_start(1))

NextAsyncWrite ==
  \/ AWWrite /\ UNCHANGED <<arVars, srVars, lwVars>>
  \/ AWPushed /\ UNCHANGED <<arVars, srVars, lwVars>>

SpecAsyncWrite == InitAsyncWrite /\ [][NextAsyncWrite]_vars

\* SpecAsyncWrite with a sink that completes every ioPush it is handed: weak
\* fairness of AWPushed, written out.  WF_vars(A) is
\* []<>(~ENABLED <<A>>_vars) \/ []<><<A>>_vars, and a completion is enabled
\* exactly when an ioPush is outstanding.
SpecAsyncWriteLive ==
  /\ InitAsyncWrite
  /\ [][NextAsyncWrite]_vars
  /\ \/ []<>(awPush = <<>>)
     \/ []<><<AWPushed /\ UNCHANGED <<arVars, srVars, lwVars>>>>_vars

InitAsyncRead ==
  /\ \E size \in 1..ARMaxCap : AR_is(AR_start(size), Started)
  /\ AW_is(AW_start(1), Started)
  /\ SR_is(SR_start(1, 0, {}), Started)
  /\ LW_is(LW_start(1))

NextAsyncRead ==
  \/ ARRead /\ UNCHANGED <<awVars, srVars, lwVars>>
  \/ ARPulled /\ UNCHANGED <<awVars, srVars, lwVars>>

SpecAsyncRead == InitAsyncRead /\ [][NextAsyncRead]_vars

\* SpecAsyncRead with a source that completes every ioPull it is handed: weak
\* fairness of ARPulled, written out as for SpecAsyncWriteLive; a completion
\* is enabled exactly when an ioPull is outstanding.
SpecAsyncReadLive ==
  /\ InitAsyncRead
  /\ [][NextAsyncRead]_vars
  /\ \/ []<>(arPull = <<>>)
     \/ []<><<ARPulled /\ UNCHANGED <<awVars, srVars, lwVars>>>>_vars

InitSyncRead ==
  /\ \E size \in 1..SRMaxCap, len \in 0..SRMaxSrc :
       \E cuts \in SUBSET (1..(len - 1)) :
         SR_is(SR_start(size, len, cuts), Started)
  /\ AW_is(AW_start(1), Started)
  /\ AR_is(AR_start(1), Started)
  /\ LW_is(LW_start(1))

NextSyncRead ==
  \/ SRRead /\ UNCHANGED <<awVars, arVars, lwVars>>
  \/ SRReadUntil /\ UNCHANGED <<awVars, arVars, lwVars>>
  \/ SRReadUntilPred /\ UNCHANGED <<awVars, arVars, lwVars>>

SpecSyncRead == InitSyncRead /\ [][NextSyncRead]_vars

\* An AsyncIOReadBuffer and a SyncIOReadBuffer of the same capacity, each in
\* front of its own copy of the same stream in the same chunks (held in
\* srSrc.len and srSrc.cuts) and given the same read calls, one at a time.
EQ_source == [srSrc EXCEPT !.pos = arSrc.pos]

InitReadEquiv ==
  /\ \E size \in 1..ARMaxCap, len \in 0..SRMaxSrc :
       \E cuts \in SUBSET (1..(len - 1)) :
         /\ SR_is(SR_start(size, len, cuts), Started)
         /\ AR_is(AR_start(size), Started)
  /\ AW_is(AW_start(1), Started)
  /\ LW_is(LW_start(1))

NextReadEquiv ==
  \/ /\ ARRead
     /\ SRRead
     /\ srLast'.arg = arLast'.n
     /\ UNCHANGED <<awVars, lwVars>>
  \/ /\ arPull # <<>>
     /\ LET p == Head(arPull)
            n == SR_answer(EQ_source, p.len)
        IN AR_set(AR_onReadFromInterface(AR_sourceSupply(AR_world, n), p.out,
                                         p.totalRequired, p.totalRead, n),
                  "pulled", n)
     /\ UNCHANGED <<awVars, srVars, lwVars>>

SpecReadEquiv == InitReadEquiv /\ [][NextReadEquiv]_vars

InitLazyWrite ==
  /\ \E size \in 1..LWMaxCap : LW_is(LW_start(size))
  /\ AW_is(AW_start(1), Started)
  /\ AR_is(AR_start(1), Started)
  /\ SR_is(SR_start(1, 0, {}), Started)

NextLazyWrite ==
  \/ LWWrite /\ UNCHANGED <<awVars, arVars, srVars>>
  \/ LWFlush /\ UNCHANGED <<awVars, arVars, srVars>>
  \/ LWDestroy /\ UNCHANGED <<awVars, arVars, srVars>>
  \/ LWSinkReturn /\ UNCHANGED <<awVars, arVars, srVars>>

SpecLazyWrite == InitLazyWrite /\ [][NextLazyWrite]_vars

\* The four engines side by side: a behaviour constructs one of them with a
\* capacity of its range and runs it, the other three stay as constructed.
AW_fresh == AW_is(AW_start(1), Started)

AR_fresh == AR_is(AR_start(1), Started)

SR_fresh == SR_is(SR_start(1, 0, {}), Started)

LW_fresh == LW_is(LW_start(1))

InitEngines ==
  \/ InitAsyncWrite
  \/ InitAsyncRead
  \/ InitSyncRead
  \/ InitLazyWrite

NextEngines ==
  \/ AR_fresh /\ SR_fresh /\ LW_fresh /\ NextAsyncWrite
  \/ AW_fresh /\ SR_fresh /\ LW_fresh /\ NextAsyncRead
  \/ AW_fresh /\ AR_fresh /\ LW_fresh /\ NextSyncRead
  \/ AW_fresh /\ AR_fresh /\ SR_fresh /\ NextLazyWrite

SpecEngines == InitEngines /\ [][NextEngines]_vars

\* The four engines side by side, constructed with any capacity that the
\* constructors take, 0 included.
InitAnySize ==
  \/ /\ \E size \in 0..AWMaxCap : AW_is(AW_start(size), Started)
     /\ AR_fresh /\ SR_fresh /\ LW_fresh
  \/ /\ \E size \in 0..ARMaxCap : AR_is(AR_start(size), Started)
     /\ AW_fresh /\ SR_fresh /\ LW_fresh
  \/ /\ \E size \in 0..SRMaxCap, len \in 0..SRMaxSrc :
          \E cuts \in SUBSET (1..(len - 1)) :
            SR_is(SR_start(size, len, cuts), Started)
     /\ AW_fresh /\ AR_fresh /\ LW_fresh
  \/ /\ \E size \in 0..LWMaxCap : LW_is(LW_start(size))
     /\ AW_fresh /\ AR_fresh /\ SR_fresh

SpecAnySize == InitAnySize /\ [][NextEngines]_vars

\* -------------------------------------------- AsyncIOReadBuffer: properties
\* Number of cells of a caller's memory that the engine has written.
AR_copied(dest) == Cardinality({i \in DOMAIN dest : dest[i] # 0})

\* The bytes handed to the callers of the first n completed reads, in order.
RECURSIVE AR_deliveredUpTo(_)
AR_deliveredUpTo(n) ==
  IF n = 0 THEN <<>>
  ELSE AR_deliveredUpTo(n - 1) \o SubSeq(arDone[n].dest, 1, arDone[n].val)

\* All bytes copied into callers' memory so far, the read in progress included.
AR_delivered ==
  AR_deliveredUpTo(Len(arDone)) \o
    (IF Len(arDone) < Len(arReads)
       THEN SubSeq(arDest, 1, AR_copied(arDest))
       ELSE <<>>)

\* C7: the bytes copied into the callers' memory, followed by the bytes still
\* in the ring, are exactly the bytes pulled from the source, in source order:
\* what was delivered is a prefix of the stream and never exceeds what was pulled.
C7_ReadIntegrity ==
  /\ AR_delivered \o AR_content(arb) = [i \in 1..arSrc.pos |-> i]
  /\ Len(AR_delivered) <= arSrc.pos

C7_Witness ==
  /\ Len(arDone) = ARMaxReads
  /\ Len(AR_delivered) = ARMaxSrc
  /\ \E k \in DOMAIN arDone : arDone[k].len > arb.m_size
  /\ arSrc.calls > ARMaxSrc \div arb.m_size + 1
  /\ arb.m_size >= 2

\* C8: onDone is invoked with the number of bytes copied into dest; that is len
\* as soon as len bytes have been copied, and less than len only once the
\* source has answered an ioPull with 0 bytes.
C8_ReadCompletionValue ==
  /\ \A k \in DOMAIN arDone :
       LET e == arDone[k]
       IN /\ e.val = AR_copied(e.dest)
          /\ e.val <= e.len
          /\ e.val < e.len => e.exh
  /\ Len(arDone) < Len(arReads) => AR_copied(arDest) < arReads[Len(arReads)]

C8_Witness ==
  /\ Len(arDone) >= 2
  /\ arDone[1].val = arDone[1].len
  /\ arSrc.calls = 2
  /\ arDone[2].val >= 1
  /\ arDone[2].val < arDone[2].len

\* C9: onDone is invoked at most once for a read call, and it has been invoked
\* for every read call whenever no ioPull is outstanding.
C9_ReadExactlyOnce ==
  /\ \A j, k \in DOMAIN arDone : arDone[j].rid = arDone[k].rid => j = k
  /\ \A k \in DOMAIN arDone : arDone[k].rid \in DOMAIN arReads
  /\ arPull = <<>> => Len(arDone) = Len(arReads)

C9_Witness ==
  /\ arPull = <<>>
  /\ Len(arReads) = ARMaxReads
  /\ Len(arDone) = ARMaxReads
  /\ arSrc.calls >= ARMaxReads + 1
  /\ arSrc.exhausted

\* C10: a read call that finds at least len bytes in the ring invokes
\* onDone(len) before it returns, moves exactly the len oldest bytes from the
\* ring to dest and does not call ioPull.
C10_ReadFastPath ==
  [][ (arLast'.op = "read" /\ AR_occupiedBytes(arb) >= arLast'.n) =>
        LET len == arLast'.n
        IN /\ Len(arDone') = Len(arDone) + 1
           /\ arDone'[Len(arDone')].rid = Len(arReads')
           /\ arDone'[Len(arDone')].val = len
           /\ arDest' = SubSeq(AR_content(arb), 1, len)
           /\ AR_content(arb') = Drop(AR_content(arb), len)
           /\ AR_occupiedBytes(arb') = AR_occupiedBytes(arb) - len
           /\ arPull' = <<>>
           /\ arSrc'.calls = arSrc.calls ]_arVars

C10_Witness ==
  /\ arLast.op = "read"
  /\ arLast.n >= 2
  /\ Len(arReads) >= 2
  /\ Len(arDone) = Len(arReads)
  /\ arDone[Len(arDone)].val = arLast.n
  /\ arSrc.calls = 1

\* C11: with a source that always hands over min(requested, bytes left) and
\* still holds at least len - k bytes when read(len) is called with k < len
\* bytes buffered, the call issues exactly ceil((len - k) / m_size) ioPull
\* calls and then invokes onDone(len).
C11_PullCount ==
  \A j \in DOMAIN arDone :
    LET e == arDone[j]
        held == ARMaxSrc - (Len(AR_deliveredUpTo(j - 1)) + e.k)
    IN (e.greedy /\ e.len > e.k /\ held >= e.len - e.k) =>
         /\ e.val = e.len
         /\ e.pulls * arb.m_size >= e.len - e.k
         /\ (e.pulls - 1) * arb.m_size < e.len - e.k

C11_Witness ==
  \E j \in DOMAIN arDone :
    /\ arDone[j].greedy
    /\ arDone[j].k >= 1
    /\ arDone[j].len > arDone[j].k
    /\ arDone[j].pulls >= 2
    /\ arDone[j].val = arDone[j].len

\* C12: for the same stream in the same chunks and the same read(len) calls
\* issued one at a time, AsyncIOReadBuffer reports to onDone the count that
\* SyncIOReadBuffer::read returns and has copied the same bytes, also for the
\* calls that meet the end of the stream with bytes still buffered.
C12_ReadEquivalence ==
  (Len(arReads) >= 1 /\ Len(arDone) = Len(arReads)) =>
     /\ arDone[Len(arDone)].val = srLast.ret
     /\ arDone[Len(arDone)].dest = srLast.dest

\* --------------------------------------------- SyncIOReadBuffer: properties
\* The bytes of the stream that the source has not handed over yet.
SR_unpulled == [i \in 1..(srSrc.len - srSrc.pos) |-> srSrc.pos + i]

\* The remaining stream: the buffered bytes, then what the source still supplies.
SR_remaining == SR_content(srb) \o SR_unpulled

\* C15: the bytes handed to the callers of read and readUntil, by the returned
\* lengths, followed by the bytes in the ring, are exactly the bytes pulled
\* from the source so far, in stream order: nothing is lost, duplicated or
\* reordered, also when the occupied region wraps around the end of storage.
C15_SyncReadIntegrity ==
  /\ srOut \o SR_content(srb) = [i \in 1..srSrc.pos |-> i]
  /\ srSrc.pos <= srSrc.len

\* C13: read(dest, len, ioPull) returns min(len, b + r), with b the bytes
\* buffered when it is called and r the bytes the source still supplies
\* before it returns 0; when the result is smaller than len the source is
\* exhausted and every buffered byte has been copied out and counted.
C13_SyncReadCount ==
  [][ srLast'.op = "read" =>
        LET len == srLast'.arg
            b == SR_occupiedBytes(srb)
            r == srSrc.len - srSrc.pos
        IN /\ srLast'.ret = Min(len, b + r)
           /\ srLast'.ret < len =>
                /\ srSrc'.exhausted
                /\ srLast'.ret >= b
                /\ SR_occupiedBytes(srb') = 0 ]_srVars

\* C14: within one read or readUntil call the engine does not call ioPull
\* again once ioPull has returned 0.
C14_NoPullAfterZero == ~srSrc.again

C15_Witness ==
  /\ srLast.op = "read"
  /\ srb.m_tail > srb.m_head
  /\ srb.m_head > 0
  /\ SR_occupiedBytes(srb) >= 2
  /\ Len(srOut) >= 3

\* The index in the remaining stream of the first byte the ender accepts, 0
\* when it accepts none of them.
SR_firstMatch(ender) ==
  LET hits == {i \in 1..Len(SR_remaining) : SR_remaining[i] \in ender}
  IN IF hits = {} THEN 0 ELSE CHOOSE i \in hits : \A j \in hits : i <= j

\* C16: when the remaining stream holds a byte the ender accepts, readUntil
\* returns the length up to and including the first such byte, copies exactly
\* those bytes to dest and keeps every following byte: the ones it has pulled
\* stay in the ring.
C16_ReadUntilMatch ==
  [][ (srLast'.op \in {"readUntil", "readUntilPred"} /\ SR_firstMatch(srLast'.arg) # 0) =>
        LET n == SR_firstMatch(srLast'.arg)
        IN /\ srLast'.ret = n
           /\ SubSeq(srLast'.dest, 1, n) = SubSeq(SR_remaining, 1, n)
           /\ \A i \in (n + 1)..Len(srLast'.dest) : srLast'.dest[i] = 0
           /\ SR_content(srb') \o SR_unpulled' = Drop(SR_remaining, n) ]_srVars

C16_Witness ==
  /\ srLast.op = "readUntil"
  /\ srb.m_size >= 2
  /\ srLast.ret > srb.m_size
  /\ srLast.dest[srLast.ret] \in srLast.arg
  /\ SR_occupiedBytes(srb) >= 1

\* C17: when the remaining stream holds no byte the ender accepts, readUntil
\* copies out all of it, the buffered bytes and the ones it pulls until the
\* source returns 0, returns their number and leaves the ring empty.
C17_ReadUntilExhausted ==
  [][ (srLast'.op \in {"readUntil", "readUntilPred"} /\ SR_firstMatch(srLast'.arg) = 0) =>
        LET n == Len(SR_remaining)
        IN /\ srLast'.ret = n
           /\ SubSeq(srLast'.dest, 1, n) = SR_remaining
           /\ SR_occupiedBytes(srb') = 0
           /\ srSrc'.pos = srSrc.len
           /\ srSrc'.exhausted ]_srVars

C17_Witness ==
  /\ srLast.op = "readUntilPred"
  /\ srb.m_size >= 2
  /\ srLast.ret > srb.m_size
  /\ srLast.dest[srLast.ret] \notin srLast.arg
  /\ srSrc.exhausted
  /\ SR_occupiedBytes(srb) = 0
  /\ Len(srOut) > srLast.ret

\* --------------------------------------- SyncIOLazyWriteBuffer: properties
\* The payload bytes of the first n write calls, in call order.
RECURSIVE LW_writtenUpTo(_)
LW_writtenUpTo(n) ==
  IF n = 0 THEN <<>>
  ELSE LW_writtenUpTo(n - 1) \o Payload(n, lwWrites[n].len)

\* C18: with a sink that accepts every byte it is offered, write(src, len)
\* returns len for every len >= 0 and every capacity >= 1, and when it has
\* returned the sink output followed by the ring content is the sequence of
\* all bytes written so far.
C18_WriteReturnsLen ==
  (lwSink.full /\ lwCall.op = "none") =>
     /\ \A k \in DOMAIN lwWrites : lwWrites[k].ret = lwWrites[k].len
     /\ lwSink.out \o LW_content(lwb) = LW_writtenUpTo(Len(lwWrites))

\* C19: when the sink accepts zero bytes in a flush called by write, the
\* loop of write stops and write returns the number of bytes it has
\* buffered, which is smaller than len.
C19_StallStopsWrite ==
  [][ (lwCall.op = "write" /\ lwCall.at \in {"A", "B1"} /\ lwSink'.out = lwSink.out) =>
        /\ lwCall'.op = "none"
        /\ lwLast'.op = "write"
        /\ lwLast'.ret = lwCall.ret
        /\ lwLast'.ret < lwLast'.n ]_lwVars

\* C20: write calls the sink only at a moment when the ring is completely
\* full and bytes of its payload are still unplaced, and a write whose
\* payload fits into the free space returns without calling the sink.
C20_Lazy ==
  [][ /\ lwCall'.op = "write" =>
           /\ LW_occupiedBytes(lwb') = lwb'.m_size
           /\ lwCall'.remainingLen > 0
      /\ (lwCall.op = "none" /\ Len(lwWrites') = Len(lwWrites) + 1
            /\ lwWrites'[Len(lwWrites')].len <= LW_freeBytes(lwb)) =>
           /\ lwCall'.op = "none"
           /\ lwSink' = lwSink
           /\ lwLast'.ret = lwLast'.n
           /\ LW_content(lwb') = LW_content(lwb) \o Payload(Len(lwWrites'), lwLast'.n)
      /\ lwSink'.out # lwSink.out => lwCall.op \in {"write", "flush", "dtor"} ]_lwVars

C20_Witness ==
  /\ lwCall.op = "write"
  /\ lwCall.at = "B1"
  /\ lwb.m_tail > 0
  /\ Len(lwWrites) >= 2
  /\ lwWrites[1].len > 0
  /\ lwWrites[1].ret = lwWrites[1].len
  /\ lwSink.out # <<>>

\* C21: a flush in which the sink accepts every byte it is offered ends with
\* an empty ring, has handed the sink exactly the bytes that were buffered,
\* in the order they were written, and has called the sink at most twice.
C21_FlushAll ==
  (lwFlush.done /\ lwFlush.full) =>
     /\ lwFlush.after = <<>>
     /\ lwFlush.sent = lwFlush.before
     /\ lwFlush.calls <= 2

C21_Witness ==
  /\ lwFlush.done
  /\ lwFlush.full
  /\ lwFlush.calls = 2
  /\ Len(lwFlush.before) >= 2
  /\ lwFlush.sent = lwFlush.before
  /\ lwLast.op = "flush"
  /\ lwCall.op = "none"

\* C22: flush returns the number of bytes the sink accepted during the call,
\* and the occupancy decreases by exactly that number.
C22_FlushAccounting ==
  lwFlush.done =>
     /\ lwFlush.ret = Len(lwFlush.sent)
     /\ Len(lwFlush.after) = Len(lwFlush.before) - Len(lwFlush.sent)

\* C23: flush() on an empty ring returns 0 without calling the sink and
\* leaves the buffer as it was; the ring is empty after a flush() in which
\* the sink accepted every byte, so that a second flush() is such a call.
C23_FlushEmptyNoOp ==
  [][ /\ (LWFlush /\ LW_occupiedBytes(lwb) = 0) =>
           /\ lwLast'.ret = 0
           /\ lwCall'.op = "none"
           /\ lwb' = lwb
           /\ lwSink' = lwSink
      /\ (lwCall'.op = "none" /\ lwLast'.op = "flush" /\ lwFlush'.done
            /\ lwFlush'.full) =>
           LW_occupiedBytes(lwb') = 0 ]_lwVars

C23_Witness ==
  /\ lwLast.op = "flush"
  /\ lwCall.op = "none"
  /\ lwFlush.done
  /\ lwFlush.calls = 0
  /\ lwLast.ret = 0
  /\ lwSink.out # <<>>
  /\ lwb.m_lastOperation = "FLUSH"

\* The bytes that the first n write calls have taken: for a call that has
\* returned the first ret bytes of its payload, for the call in progress the
\* bytes it has placed so far.
RECURSIVE LW_acceptedUpTo(_)
LW_acceptedUpTo(n) ==
  IF n = 0 THEN <<>>
  ELSE LW_acceptedUpTo(n - 1) \o
         SubSeq(Payload(n, lwWrites[n].len), 1,
                IF lwWrites[n].done THEN lwWrites[n].ret ELSE lwCall.ret)

\* C24: for every sink, whenever no call is in progress, the bytes the sink
\* has accepted are a prefix, in order, of the bytes that write has accepted,
\* and the remaining ones are exactly the ring content.
C24_PartialSink ==
  lwCall.op = "none" =>
     lwSink.out \o LW_content(lwb) = LW_acceptedUpTo(Len(lwWrites))

\* C25: once the buffer has been destroyed, a sink that accepts every byte it
\* is offered has received every byte that the write calls reported as
\* accepted, in order.
C25_DestructorFlushes ==
  (lwLast.op = "dtor" /\ lwCall.op = "none" /\ lwSink.full) =>
     lwSink.out = LW_acceptedUpTo(Len(lwWrites))

C25_Witness ==
  /\ lwLast.op = "dtor"
  /\ lwCall.op = "none"
  /\ lwSink.full
  /\ Len(lwWrites) >= 2
  /\ lwFlush.calls >= 1
  /\ Len(lwFlush.sent) >= 2
  /\ Len(lwSink.out) > Len(lwFlush.sent)

\* C26: in every reachable state of each of the four engines the number of
\* occupied bytes lies between 0 and the capacity, and occupied bytes plus
\* free bytes equal the capacity.
C26_Occupancy ==
  /\ AW_occupiedBytes(awb) \in 0..awb.m_size
  /\ AW_occupiedBytes(awb) + AW_freeBytes(awb) = awb.m_size
  /\ AR_occupiedBytes(arb) \in 0..arb.m_size
  /\ AR_occupiedBytes(arb) + AR_freeBytes(arb) = arb.m_size
  /\ SR_occupiedBytes(srb) \in 0..srb.m_size
  /\ SR_occupiedBytes(srb) + SR_freeBytes(srb) = srb.m_size
  /\ LW_occupiedBytes(lwb) \in 0..lwb.m_size
  /\ LW_occupiedBytes(lwb) + LW_freeBytes(lwb) = lwb.m_size

C26_Witness ==
  /\ awb.m_head < awb.m_tail
  /\ awb.m_head > 0
  /\ AW_occupiedBytes(awb) = awb.m_size - 1
  /\ AW_freeBytes(awb) = 1
  /\ awLast.op # "init"

\* C27: in every reachable state of each of the four engines head and tail
\* lie between 0 and capacity - 1.
C27_CursorBounds ==
  /\ awb.m_head \in 0..(awb.m_size - 1)
  /\ awb.m_tail \in 0..(awb.m_size - 1)
  /\ arb.m_head \in 0..(arb.m_size - 1)
  /\ arb.m_tail \in 0..(arb.m_size - 1)
  /\ srb.m_head \in 0..(srb.m_size - 1)
  /\ srb.m_tail \in 0..(srb.m_size - 1)
  /\ lwb.m_head \in 0..(lwb.m_size - 1)
  /\ lwb.m_tail \in 0..(lwb.m_size - 1)

\* C28: no engine ever has capacity 0: an engine constructed with requested
\* capacity 0 has capacity 1, and 1 free byte when it is empty.
C28_CapacityCoerced ==
  /\ awb.m_size >= 1
  /\ arb.m_size >= 1
  /\ srb.m_size >= 1
  /\ lwb.m_size >= 1
  /\ (AW_occupiedBytes(awb) = 0 => AW_freeBytes(awb) >= 1)
  /\ (AR_occupiedBytes(arb) = 0 => AR_freeBytes(arb) >= 1)
  /\ (SR_occupiedBytes(srb) = 0 => SR_freeBytes(srb) >= 1)
  /\ (LW_occupiedBytes(lwb) = 0 => LW_freeBytes(lwb) >= 1)

\* C29: at most one ioPush is outstanding at any time, and m_writeLoopOn is
\* true exactly while one is outstanding.
C29_SingleInFlight ==
  /\ Len(awPush) <= 1
  /\ awb.m_writeLoopOn <=> (awPush # <<>>)

C29_Witness ==
  /\ Len(awPush) = 1
  /\ awb.m_writeLoopOn
  /\ Len(awb.m_pendingWriteQueue) >= 2
  /\ awLast.op = "write"
  /\ awSink.out # <<>>

\* C30: every ioPush that write or a push completion issues starts at m_tail
\* and has the length min(occupiedBytes(), m_size - m_tail), which is at
\* least 1.
C30_PushSegments ==
  [][ ((AWPushed \/ (AWWrite /\ awPush = <<>>)) /\ awPush' # <<>>) =>
        LET p == awPush'[Len(awPush')]
        IN /\ p.len >= 1
           /\ p.ptr = awb'.m_tail
           /\ p.len = Min(AW_occupiedBytes(awb'), awb'.m_size - awb'.m_tail) ]_awVars

\* C31: the handler of a write with len = 0 is invoked only after the
\* handlers of all writes submitted before it.
C31_ZeroLengthOrder ==
  \A k \in DOMAIN awFired :
    awSubs[awFired[k].id].len = 0 =>
      \A i \in 1..(awFired[k].id - 1) : \E j \in 1..(k - 1) : awFired[j].id = i

\* C32: a write call with len = 0 invokes its handler with 0 and changes
\* nothing else: the buffer object (head, tail, last operation, pending
\* queue, loop flag, storage), the outstanding ioPush calls and the sink stay
\* as they were.
C32_ZeroLengthFrame ==
  [][ (Len(awSubs') = Len(awSubs) + 1 /\ awSubs'[Len(awSubs')].len = 0) =>
        /\ awFired' = Append(awFired, [id  |-> Len(awSubs'),
                                       val |-> 0,
                                       acc |-> 0,
                                       exh |-> awSink.exhausted])
        /\ awb' = awb
        /\ awPush' = awPush
        /\ awSink' = awSink ]_awVars

C32_Witness ==
  /\ awLast = [op |-> "write", n |-> 0]
  /\ awFired # <<>>
  /\ awSubs[awFired[Len(awFired)].id].len = 0
  /\ awFired[Len(awFired)].val = 0
  /\ awPush # <<>>
  /\ awb.m_pendingWriteQueue # <<>>
  /\ awb.m_writeLoopOn

\* The sum over the first n pending requests of alreadyPut - alreadySent.
RECURSIVE AW_unsentUpTo(_)
AW_unsentUpTo(n) ==
  IF n = 0 THEN 0
  ELSE AW_unsentUpTo(n - 1) + awb.m_pendingWriteQueue[n].alreadyPut
                            - awb.m_pendingWriteQueue[n].alreadySent

\* C33: between engine calls the ring occupancy equals the sum over the
\* pending requests of bytes placed minus bytes confirmed, and every pending
\* request has 0 <= alreadySent <= alreadyPut <= len.
C33_Accounting ==
  /\ AW_occupiedBytes(awb) = AW_unsentUpTo(Len(awb.m_pendingWriteQueue))
  /\ \A i \in DOMAIN awb.m_pendingWriteQueue :
       LET r == awb.m_pendingWriteQueue[i]
       IN 0 <= r.alreadySent /\ r.alreadySent <= r.alreadyPut /\ r.alreadyPut <= r.len

\* C34: between engine calls, if a pending request has payload that is not
\* placed yet then the ring is full and every request behind it has placed
\* no byte.
C34_PlacementOrder ==
  \A i \in DOMAIN awb.m_pendingWriteQueue :
    awb.m_pendingWriteQueue[i].alreadyPut < awb.m_pendingWriteQueue[i].len =>
      /\ AW_freeBytes(awb) = 0
      /\ \A j \in (i + 1)..Len(awb.m_pendingWriteQueue) :
           awb.m_pendingWriteQueue[j].alreadyPut = 0

\* C35: whenever the flush loop is off the pending queue is empty and the
\* ring holds no bytes.
C35_Quiescence ==
  ~awb.m_writeLoopOn =>
     /\ awb.m_pendingWriteQueue = <<>>
     /\ AW_occupiedBytes(awb) = 0

\* The handler of write call id has been invoked with the full length.
AW_hasFiredFull(id) ==
  \E k \in DOMAIN awFired : awFired[k].id = id /\ awFired[k].val = awSubs[id].len

\* C36: when every ioPush completes, time and again the flush loop has ended
\* and the handler of every write submitted so far has been invoked, so that
\* every submitted write's handler is eventually invoked; unless the sink has
\* returned 0 for some ioPush, each has been invoked with the full length of
\* its request.
C36_Liveness ==
  []<>(/\ ~awb.m_writeLoopOn
       /\ AW_allFired
       /\ awSink.exhausted \/ \A id \in DOMAIN awSubs : AW_hasFiredFull(id))

C36_Witness ==
  /\ Len(awSubs) >= 2
  /\ \A id \in DOMAIN awSubs : awSubs[id].len > awb.m_size /\ AW_hasFiredFull(id)
  /\ ~awb.m_writeLoopOn
  /\ ~awSink.exhausted
  /\ awLast.op = "pushed"

\* C37: with reads issued one at a time, at most one ioPull is outstanding,
\* and while one is outstanding the ring is empty with m_head = m_tail = 0
\* and the ioPull asks for m_size bytes at offset 0 of the storage.
C37_RefillShape ==
  /\ Len(arPull) <= 1
  /\ arPull # <<>> =>
       /\ AR_occupiedBytes(arb) = 0
       /\ arb.m_head = 0
       /\ arb.m_tail = 0
       /\ Head(arPull).ptr = 0
       /\ Head(arPull).len = arb.m_size
       /\ Head(arPull).len >= 1

C37_Witness ==
  /\ arPull # <<>>
  /\ arb.m_size >= 2
  /\ arLast.op = "pulled"
  /\ arLast.n < arb.m_size
  /\ Len(arDone) >= 1
  /\ Head(arPull).totalRead >= 1

\* C38: when every ioPull completes, every read call has its onDone invoked;
\* a completion with at least one byte copies at least one byte to the
\* caller's memory, a read call issues at most len ioPull calls, and a
\* completion with 0 bytes invokes onDone and issues no further ioPull.
C38_ReadTermination ==
  /\ []<>(Len(arDone) = Len(arReads))
  /\ [](/\ \A j \in DOMAIN arDone : arDone[j].pulls <= arDone[j].len
        /\ Len(arDone) < Len(arReads) =>
             arSrc.calls - arCall.calls <= arReads[Len(arReads)])
  /\ [][ /\ (arLast'.op = "pulled" /\ arLast'.n >= 1) =>
             AR_copied(arDest') >= AR_copied(arDest) + 1
         /\ (arLast'.op = "pulled" /\ arLast'.n = 0) =>
             /\ arPull' = <<>>
             /\ arSrc'.calls = arSrc.calls
             /\ Len(arDone') = Len(arDone) + 1
             /\ Len(arDone') = Len(arReads') ]_arVars

C38_Witness ==
  /\ Len(arDone) = Len(arReads)
  /\ Len(arDone) >= 2
  /\ \E j \in DOMAIN arDone :
       arDone[j].pulls = arDone[j].len /\ arDone[j].len >= 2 /\ arDone[j].val = arDone[j].len
  /\ \E j \in DOMAIN arDone :
       arDone[j].val < arDone[j].len /\ arDone[j].pulls >= 2 /\ arDone[j].exh

\* The bytes in an AsyncIOReadBuffer ring by the source and the callers: bytes
\* pulled minus bytes copied out.
AR_held == arSrc.pos - Len(AR_delivered)

\* The same for the SyncIOReadBuffer ring.
SR_held == srSrc.pos - Len(srOut)

\* C39: in both read engines the number of occupied bytes equals the bytes
\* pulled from the source minus the bytes copied to the callers; with
\* m_head = m_tail the ring is full when the last operation on it was a
\* refill, and otherwise empty with m_head = m_tail = 0.  The same holds inside
\* a pull completion of the async engine right after the refill is recorded,
\* where a refill of m_size bytes leaves m_head = m_tail with a full ring.
C39_HeadTailDisambiguation ==
  /\ [](/\ AR_occupiedBytes(arb) = AR_held
        /\ SR_occupiedBytes(srb) = SR_held
        /\ arb.m_head = arb.m_tail =>
             IF arb.m_lastOperation = "PASTE"
               THEN AR_held = arb.m_size
               ELSE AR_held = 0 /\ arb.m_head = 0
        /\ srb.m_head = srb.m_tail =>
             IF srb.m_lastOperation = "PASTE"
               THEN SR_held = srb.m_size
               ELSE SR_held = 0 /\ srb.m_head = 0)
  /\ [][ (arPull # <<>> /\ arLast'.op = "pulled" /\ arLast'.n >= 1) =>
           LET refilled == [arb EXCEPT !.m_head = (@ + arLast'.n) % arb.m_size,
                                       !.m_lastOperation = "PASTE"]
           IN /\ AR_occupiedBytes(refilled) = arSrc'.pos - Len(AR_delivered)
              /\ arLast'.n = arb.m_size =>
                   /\ refilled.m_head = refilled.m_tail
                   /\ AR_occupiedBytes(refilled) = arb.m_size ]_arVars

C39_Witness ==
  /\ arLast.op = "pulled"
  /\ arLast.n = arb.m_size
  /\ arb.m_size >= 2
  /\ arb.m_lastOperation = "COPY"
  /\ AR_occupiedBytes(arb) = 1
  /\ AR_held = 1
  /\ Len(arDone) >= 2

====
